---- MODULE Spec2Model ----
(***************************************************************************)
(* Calculation-run data access of the billing application: the run         *)
(* registry (CalculationRun), the preference store                         *)
(* (UserDashboardPreference), the snapshot files of a run directory, the   *)
(* two DataAccessService classes (services/data_access.py, static and      *)
(* request based; services/data_access_service.py, one instance per user   *)
(* ip) and the result cache of get_calculation_data.                       *)
(***************************************************************************)
EXTENDS Integers, FiniteSets, Sequences, TLC

(* ------------------------------ domains -------------------------------- *)

\* run_id values used by callers; a run_id with no record is "not found"
RunIds == {"r1", "r2"}

\* user identifiers (client ip, get_user_identifier / get_client_ip)
Users == {"u1", "u2"}

\* logical table names passed to get_latest_parquet by the two services
Bases == {"result", "employee_summary", "adjusted"}

\* the tables the two views read: the three above and global_summary
Tables == Bases \cup {"global_summary"}

Versions == {"initial", "updated"}

\* STATUS_CHOICES
Statuses == {"processing", "completed", "failed", "updated"}

\* Python's None, and the name of the exception a call raised
None == "None"

TypeError == "TypeError"

IntegrityError == "IntegrityError"

\* the clock (timezone.now) advances at most MaxTicks times
MaxTicks == 1

\* distinct contents a snapshot file can have (0 is "no such file")
MaxContent == 2

\* cache.set(cache_key, result, 3600)
CacheTTL == 3600

VARIABLES
    runs,      \* run_id -> CalculationRun row (exists = FALSE: no such row)
    prefs,     \* user_identifier -> preferred_run of the user's row, or NoPref
    files,     \* <<run_id, base, version>> -> content of the parquet file, 0 if absent
    cache,     \* <<user, run_id>> -> entry of django.core.cache under the user's key
    now,       \* timezone.now / time.time, in seconds
    last,      \* the most recent call: its name, arguments and outcome
    pref_table, \* the rows of UserDashboardPreference, in the order of their primary keys
    calls      \* slot -> the set-preference call in progress there and its next statement

vars == <<runs, prefs, files, cache, now, last, pref_table, calls>>

(* ---------------------------- CalculationRun --------------------------- *)

\* the row that is not there
NoRun == [exists |-> FALSE, status |-> "processing", created_at |-> 0,
          is_archived |-> FALSE, summary |-> <<0, 0>>]

\* the user has no UserDashboardPreference row
NoPref == "NoPref"

FileKeys == RunIds \X Tables \X Versions

\* Path.exists() of <data_path>/<base>_<version>.parquet; the data directory of
\* run r is slr_temp_runs/<r>, one directory per run
FileExists(r, base, ver) == files[<<r, base, ver>>] # 0

\* data_dir.exists(): the directory exists once it holds a file
DirExists(r) == \E b \in Tables, v \in Versions : FileExists(r, b, v)

\* an availability test that takes either version of the two files
is_data_available_any_version(r) ==
    /\ \E v \in Versions : FileExists(r, "result", v)
    /\ \E v \in Versions : FileExists(r, "employee_summary", v)

\* an availability test that looks at the directory only
is_data_available_dir_only(r) == DirExists(r)

\* CalculationRun.is_data_available (a property)
is_data_available(r) ==
    /\ DirExists(r)
    /\ FileExists(r, "result", "initial")
    /\ FileExists(r, "employee_summary", "initial")

\* CalculationRun.has_updates (a property)
has_updates(r) == FileExists(r, "result", "updated")

\* get_latest_parquet with the two tests in the other order
get_latest_parquet_initial_first(r, base) ==
    IF FileExists(r, base, "initial") THEN "initial"
    ELSE IF FileExists(r, base, "updated") THEN "updated"
    ELSE None

\* CalculationRun.get_latest_parquet: the version of the file returned, "None" if none
get_latest_parquet(r, base) ==
    IF FileExists(r, base, "updated") THEN "updated"
    ELSE IF FileExists(r, base, "initial") THEN "initial"
    ELSE None

\* content of the file get_latest_parquet returned (0 when it returned None)
LatestContent(r, base) ==
    IF get_latest_parquet(r, base) = None THEN 0
    ELSE files[<<r, base, get_latest_parquet(r, base)>>]

\* content of a file that exists and that pd.read_parquet cannot read
Corrupt == -1

\* pd.read_parquet(run.get_latest_parquet(base)) returns a table: there is a
\* file and it can be read (read_parquet raises on None and on a corrupt file)
Readable(r, base) == get_latest_parquet(r, base) # None /\ LatestContent(r, base) # Corrupt

(* --------------------- observation of the last call -------------------- *)

\* value of a dict that carries no data (the 'error' results)
NoData == [run_id |-> None, status |-> None, projects |-> 0, employees |-> 0]

\* the record of a call: op(user, run_id, force_refresh) -> ret; run is the run
\* the call resolved, data the dict it returned, reads the parquet files it read,
\* table the base_name it was given
Call(op, u, rid, force, ret, run, data, from_cache, reads) ==
    [op |-> op, user |-> u, run_id |-> rid, force |-> force, ret |-> ret,
     run |-> run, data |-> data, from_cache |-> from_cache, reads |-> reads,
     table |-> None]

NoCall == Call("init", None, None, FALSE, None, None, NoData, FALSE, {})

\* a step of a collaborator of the core, which is no call of the core
EnvCall == Call("env", None, None, FALSE, None, None, NoData, FALSE, {})

(* ----------------- services/data_access.py (static) -------------------- *)

\* the rows of .filter(status__in=['completed', 'updated'], is_archived=False)
get_available_runs ==
    {r \in RunIds : /\ runs[r].exists
                    /\ runs[r].status \in {"completed", "updated"}
                    /\ ~runs[r].is_archived}

\* the rows a queryset ordered by -created_at can yield first: ORDER BY created_at
\* DESC LIMIT 1 names no tie-break, so any row with the greatest created_at
First(rows) == {r \in rows : \A q \in rows : runs[q].created_at <= runs[r].created_at}

\* get_latest_run: Meta.ordering = ['-created_at'], then .first()
get_latest_run == IF get_available_runs = {} THEN {None} ELSE First(get_available_runs)

\* UserDashboardPreference.objects.get(user_identifier=user_id).preferred_run is
\* set and its data is available
PreferenceUsable(u) == prefs[u] # NoPref /\ is_data_available(prefs[u])

\* get_preferred_run: the runs it can return
get_preferred_run(u) == IF PreferenceUsable(u) THEN {prefs[u]} ELSE get_latest_run

\* load_dashboard_data(run)['data_available']: the run is given, its data is
\* available and the three tables can be read
load_dashboard_data(run) ==
    /\ run # None
    /\ is_data_available(run)
    /\ \A b \in Bases : Readable(run, b)

\* the files load_dashboard_data opens: result, employee_summary and adjusted
\* in this order, up to the first read_parquet that raises
load_dashboard_reads(run) ==
    IF run # None /\ is_data_available(run)
    THEN {<<b, get_latest_parquet(run, b)>> :
            b \in {b \in Bases : /\ get_latest_parquet(run, b) # None
                                 /\ b # "result" => Readable(run, "result")
                                 /\ b = "adjusted" => Readable(run, "employee_summary")}}
    ELSE {}

\* get_dashboard_context: the run it uses; run_id = None is "no run_id given"
get_dashboard_context(u, run_id) ==
    IF run_id # None
    THEN IF runs[run_id].exists THEN {run_id} ELSE {None}
    ELSE get_preferred_run(u)

(* --------------- services/data_access_service.py (per user) ------------ *)

\* get_user_preferred_run
get_user_preferred_run(u) == IF prefs[u] = NoPref THEN None ELSE prefs[u]

\* get_latest_completed_run: filter(status='completed').order_by('-created_at').first()
get_latest_completed_run ==
    LET completed == {r \in RunIds : runs[r].exists /\ runs[r].status = "completed"}
    IN  IF completed = {} THEN {None} ELSE First(completed)

\* `run.is_data_available()`: is_data_available is a property, so the expression
\* evaluates it to a bool and then calls the bool, which raises TypeError
CallIsDataAvailable(run) == TypeError

\* get_current_run: what the call returns (a run_id or None) or raises
get_current_run(u) ==
    LET preferred_run == get_user_preferred_run(u) IN
    IF preferred_run # None /\ runs[preferred_run].status = "completed"
    THEN {CallIsDataAvailable(preferred_run)}
    ELSE {IF latest_run # None THEN CallIsDataAvailable(latest_run) ELSE None :
            latest_run \in get_latest_completed_run}

\* _invalidate_cache: the body is `pass`; the cache after the call
_invalidate_cache(u) == cache

\* the run get_calculation_data uses: the completed run with that run_id, else
\* (not found, not completed, or no run_id) whatever get_current_run yields
ResolveCalculationRun(u, run_id) ==
    IF run_id # None /\ runs[run_id].exists /\ runs[run_id].status = "completed"
    THEN {run_id}
    ELSE get_current_run(u)

\* a cache key that leaves the user out
cache_key_run_only(u, run) == <<"u1", run>>

\* cache_key = f"{self._cache_prefix}_data_{run.run_id}", one per (user, run)
cache_key(u, run) == <<u, run>>

NoEntry == [value |-> NoData, expires |-> 0]

\* a cache.get that never finds an entry
LiveNever(key) == FALSE

\* cache.get(key) finds the entry: it was set and has not expired
Live(key) == cache[key].expires > now

\* a dict that also depends on the time of the computation
ComputeDataStamped(run) ==
    [run_id |-> run, status |-> IF now = 0 THEN runs[run].status ELSE "later",
     projects |-> LatestContent(run, "result"),
     employees |-> LatestContent(run, "employee_summary")]

\* the dict get_calculation_data builds from the latest result and
\* employee_summary files of the run
ComputeData(run) ==
    [run_id |-> run, status |-> runs[run].status,
     projects |-> LatestContent(run, "result"),
     employees |-> LatestContent(run, "employee_summary")]

\* CalculationRun.load_summary_data: the numbers read from the latest result and
\* employee_summary files, <<0, 0>> standing for the None it returns without them
load_summary_data(run) ==
    IF Readable(run, "result") /\ Readable(run, "employee_summary")
    THEN <<LatestContent(run, "result"), LatestContent(run, "employee_summary")>>
    ELSE <<0, 0>>

\* a summary refresh that stores whatever load_summary_data returned
update_summary_cache_always(run) == load_summary_data(run)

\* CalculationRun.update_summary_cache: the row's summary numbers after the call
update_summary_cache(run) ==
    IF load_summary_data(run) # <<0, 0>> THEN load_summary_data(run) ELSE runs[run].summary

(* ------- services/data_access.py: the numbers of load_dashboard_data ---- *)

\* result_df is a sequence of rows [Libelle_projet, Estimees, Adjusted_Cost,
\* Ecart, Total_Heures, Adjusted_Hours]; employee_summary_df is a record
\* [columns, rows], columns the subset of {"Total", "Rate", "Total Heures"} the
\* table has and rows a sequence of [Libelle_projet, Nom, Total, Rate,
\* Total_Heures]. Amounts are integers; a quotient or product of floats is kept
\* as the exact fraction <<numerator, denominator>>.

\* the project labels, in the order sorted() puts them
Labels == <<"Alpha", "Beta">>

RECURSIVE Sum(_)
\* Series.sum() of a sequence of numbers
Sum(s) == IF s = <<>> THEN 0 ELSE Head(s) + Sum(Tail(s))

\* the fraction n/d and the float n
Frac(n, d) == <<n, d>>
Whole(n) == <<n, 1>>

\* two fractions with non-zero denominators are the same number
FracEq(p, q) == p[1] * q[2] = q[1] * p[2]

\* df[df['Libelle projet'] == projet_name]
RowsOf(rows, projet_name) == SelectSeq(rows, LAMBDA row : row.Libelle_projet = projet_name)

\* sorted(list(result_df['Libelle projet'].unique()))
projects_list(result_df) ==
    SelectSeq(Labels, LAMBDA l : \E i \in 1..Len(result_df) : result_df[i].Libelle_projet = l)

\* the percentage without the test of the budget
pct_ajustement_unguarded(ecart, budget_estime) == Frac(ecart * 100, budget_estime)

\* (ecart / budget_estime) * 100 if budget_estime else 0
pct_ajustement(ecart, budget_estime) ==
    IF budget_estime # 0 THEN Frac(ecart * 100, budget_estime) ELSE Whole(0)

\* overall KPIs taken from the first row of the result table only
overall_kpis_first_row(result_df, employee_summary_df) ==
    [nbEmployes |-> Cardinality({employee_summary_df.rows[i].Nom : i \in 1..Len(employee_summary_df.rows)}),
     totalBudgetEstime |-> result_df[1].Estimees,
     totalAdjustedCost |-> result_df[1].Adjusted_Cost,
     totalEcart |-> result_df[1].Ecart,
     totalProjects |-> Len(projects_list(result_df)),
     pctAjustement |-> pct_ajustement(result_df[1].Ecart, result_df[1].Estimees)]

\* overall_kpis
overall_kpis(result_df, employee_summary_df) ==
    LET totalBudgetEstime == Sum([i \in 1..Len(result_df) |-> result_df[i].Estimees])
        totalEcart == Sum([i \in 1..Len(result_df) |-> result_df[i].Ecart])
    IN  [nbEmployes |-> Cardinality({employee_summary_df.rows[i].Nom : i \in 1..Len(employee_summary_df.rows)}),
         totalBudgetEstime |-> totalBudgetEstime,
         totalAdjustedCost |-> Sum([i \in 1..Len(result_df) |-> result_df[i].Adjusted_Cost]),
         totalEcart |-> totalEcart,
         totalProjects |-> Len(projects_list(result_df)),
         pctAjustement |-> pct_ajustement(totalEcart, totalBudgetEstime)]

\* the realized cost with the Rate x Total Heures sum tried before the Total column
project_total_cost_rate_first(columns, project_employee_data, project_result_data) ==
    LET total_sum == Sum([i \in 1..Len(project_employee_data) |-> project_employee_data[i].Total])
        manual_calc == Sum([i \in 1..Len(project_employee_data) |->
                               project_employee_data[i].Rate * project_employee_data[i].Total_Heures])
    IN  IF {"Rate", "Total Heures"} \subseteq columns /\ manual_calc > 0 THEN Whole(manual_calc)
        ELSE IF "Total" \in columns /\ total_sum > 0 THEN Whole(total_sum)
        ELSE IF project_result_data.Total_Heures > 0
             THEN IF project_result_data.Adjusted_Hours > 0
                  THEN Frac(project_result_data.Total_Heures * project_result_data.Adjusted_Cost,
                            project_result_data.Adjusted_Hours)
                  ELSE Whole(project_result_data.Total_Heures * 500)
        ELSE Frac(project_result_data.Estimees * 8, 10)

\* the realized cost with an estimate from the hours that is dropped for the
\* share of the budget when it comes out as zero
project_total_cost_placeholder_on_zero(columns, project_employee_data, project_result_data) ==
    LET total_sum == Sum([i \in 1..Len(project_employee_data) |-> project_employee_data[i].Total])
        manual_calc == Sum([i \in 1..Len(project_employee_data) |->
                               project_employee_data[i].Rate * project_employee_data[i].Total_Heures])
        estimate == IF project_result_data.Adjusted_Hours > 0
                    THEN Frac(project_result_data.Total_Heures * project_result_data.Adjusted_Cost,
                              project_result_data.Adjusted_Hours)
                    ELSE Whole(project_result_data.Total_Heures * 500)
    IN  IF "Total" \in columns /\ total_sum > 0 THEN Whole(total_sum)
        ELSE IF {"Rate", "Total Heures"} \subseteq columns /\ manual_calc > 0 THEN Whole(manual_calc)
        ELSE IF project_result_data.Total_Heures > 0 /\ estimate[1] # 0 THEN estimate
        ELSE Frac(project_result_data.Estimees * 8, 10)

\* project_total_cost of one project: the Total column of its employee rows, else
\* Rate x Total Heures, else an estimate from the hours, else 80% of the budget
project_total_cost(columns, project_employee_data, project_result_data) ==
    LET heures_reelles == project_result_data.Total_Heures
        heures_ajustees == project_result_data.Adjusted_Hours
        adjusted_cost == project_result_data.Adjusted_Cost
        budget_estime == project_result_data.Estimees
        total_sum == Sum([i \in 1..Len(project_employee_data) |-> project_employee_data[i].Total])
        from_total == IF "Total" \in columns /\ Len(project_employee_data) > 0 /\ total_sum > 0
                      THEN total_sum ELSE 0
        manual_calc == Sum([i \in 1..Len(project_employee_data) |->
                               project_employee_data[i].Rate * project_employee_data[i].Total_Heures])
        from_rate == IF from_total = 0 /\ "Rate" \in columns /\ "Total Heures" \in columns /\ manual_calc > 0
                     THEN manual_calc ELSE from_total
    IN  IF from_rate = 0
        THEN IF heures_reelles > 0
             THEN IF heures_ajustees > 0
                  THEN Frac(heures_reelles * adjusted_cost, heures_ajustees)
                  ELSE Whole(heures_reelles * 500)
             ELSE Frac(budget_estime * 8, 10)
        ELSE Whole(from_rate)

\* the entry of table_projets (with the pctAjustement of projects_data) of one project
project_entry(result_df, employee_summary_df, projet_name) ==
    LET project_result_data == RowsOf(result_df, projet_name)[1]
        project_employee_data == RowsOf(employee_summary_df.rows, projet_name)
    IN  [Libelle_projet |-> projet_name,
         Total_Heures |-> project_result_data.Total_Heures,
         Adjusted_Hours |-> project_result_data.Adjusted_Hours,
         Adjusted_Cost |-> project_result_data.Adjusted_Cost,
         Estimees |-> project_result_data.Estimees,
         Ecart |-> project_result_data.Ecart,
         pctAjustement |-> pct_ajustement(project_result_data.Ecart, project_result_data.Estimees),
         Total |-> project_total_cost(employee_summary_df.columns, project_employee_data, project_result_data)]

\* table_projets: one entry per label of projects_list
table_projets(result_df, employee_summary_df) ==
    [i \in 1..Len(projects_list(result_df)) |->
        project_entry(result_df, employee_summary_df, projects_list(result_df)[i])]

(* ---- set_preferred_run / set_user_preferred_run, statement by statement --- *)

\* calls of set_preferred_run and set_user_preferred_run that can be in progress
\* at the same time (requests served by different threads)
MaxCalls == 2

CallIds == 1..MaxCalls

\* a call slot with no call in progress
Idle == [pc |-> "idle", svc |-> None, user |-> None, run |-> None, pk |-> 0]

\* the primary keys of the rows of user u in the UserDashboardPreference table
RowsOfUser(table, u) == {i \in 1..Len(table) : table[i].user_identifier = u}

\* a table without the unique constraint: no INSERT is refused
NoUniqueConstraint(table, u) == FALSE

\* unique_together = ['user_identifier']: an INSERT for u is refused with
\* IntegrityError when the table holds a row of u
UniqueViolation(table, u) == RowsOfUser(table, u) # {}

\* the record of the return of the set-preference call in slot c
SetReturn(c, ret) ==
    Call(IF calls[c].svc = "A" THEN "set_preferred_run" ELSE "set_user_preferred_run",
         calls[c].user, calls[c].run, FALSE, ret, calls[c].run, NoData, FALSE, {})

(* ------------------ the run listings of the two services ---------------- *)

\* .order_by('-created_at') of the rows in `rows`, as a list: every order of the
\* rows in which created_at never increases (no tie-break is stated)
order_by_created_at_desc(rows) ==
    {s \in [1..Cardinality(rows) -> rows] :
        /\ \A i, j \in DOMAIN s : i # j => s[i] # s[j]
        /\ \A i, j \in DOMAIN s : i < j => runs[s[i]].created_at >= runs[s[j]].created_at}

\* data_access_service.py get_available_runs(include_running): the rows of
\* CalculationRun.objects.all(), filtered by status='completed' unless
\* include_running
service_get_available_runs(include_running) ==
    {r \in RunIds : runs[r].exists /\ (include_running \/ runs[r].status = "completed")}

(* ------------- views_updated_dashboard.py and views_export.py ---------- *)

\* the files a view opens out of the sequence paths of <<base, version>> it
\* asks for one after the other: every file that exists, up to the first one
\* that stops the view (must_exist: a missing file raises as well)
ReadsInOrder(r, paths, must_exist) ==
    {paths[i] : i \in {i \in DOMAIN paths :
        /\ files[<<r, paths[i][1], paths[i][2]>>] # 0
        /\ \A j \in 1..(i - 1) :
              /\ files[<<r, paths[j][1], paths[j][2]>>] # Corrupt
              /\ must_exist => files[<<r, paths[j][1], paths[j][2]>>] # 0}}

\* DashboardRessourceView.get: the four pd.read_parquet calls of its try block
ressource_view_paths ==
    <<<<"adjusted", "initial">>, <<"employee_summary", "initial">>,
      <<"global_summary", "initial">>, <<"result", "initial">>>>

\* export_all_tables_json: <base>_updated.parquet, replaced by
\* <base>_initial.parquet when it does not exist
export_paths(r) ==
    [i \in 1..3 |->
        LET b == <<"result", "employee_summary", "global_summary">>[i]
        IN  <<b, IF FileExists(r, b, "updated") THEN "updated" ELSE "initial">>]

(* ------------- the cache key of get_calculation_data as a string -------- *)

\* values of user_ip (the first entry of X-Forwarded-For, else REMOTE_ADDR) and
\* of user_identifier ("" is the default) handed to DataAccessService(...)
ClientIps == {"a", "a_b"}
UserIdentifiers == {"", "c", "b_c"}

\* the (user_ip, user_identifier, run_id) of a call
Triples == ClientIps \X UserIdentifiers \X {"r1"}

\* self._cache_prefix = f"calc_data_{user_ip}_{user_identifier}"
_cache_prefix(user_ip, user_identifier) == "calc_data_" \o user_ip \o "_" \o user_identifier

\* cache_key = f"{self._cache_prefix}_data_{run.run_id}"
cache_key_string(t) == _cache_prefix(t[1], t[2]) \o "_data_" \o t[3]

\* no value under a key
NoValue == <<>>

(* ------------------------------- actions ------------------------------- *)

\* a get_calculation_data that stores the dict of a failed computation as well
GetCalculationDataStoringErrors(u, run_id, force) ==
    \E run \in ResolveCalculationRun(u, run_id) :
        /\ UNCHANGED <<runs, prefs, files, now, pref_table, calls>>
        /\ IF run = TypeError
           THEN /\ last' = Call("get_calculation_data", u, run_id, force, TypeError, None, NoData, FALSE, {})
                /\ UNCHANGED cache
           ELSE IF run = None
           THEN /\ last' = Call("get_calculation_data", u, run_id, force, "error", None, NoData, FALSE, {})
                /\ UNCHANGED cache
           ELSE IF ~force /\ Live(cache_key(u, run))
           THEN /\ last' = Call("get_calculation_data", u, run_id, force, "ok", run,
                                cache[cache_key(u, run)].value, TRUE, {})
                /\ UNCHANGED cache
           ELSE IF ~Readable(run, "result") \/ ~Readable(run, "employee_summary")
           THEN /\ last' = Call("get_calculation_data", u, run_id, force, "error", run, NoData, FALSE, {})
                /\ cache' = [cache EXCEPT ![cache_key(u, run)] =
                                [value |-> NoData, expires |-> now + CacheTTL]]
           ELSE /\ cache' = [cache EXCEPT ![cache_key(u, run)] =
                                [value |-> ComputeData(run), expires |-> now + CacheTTL]]
                /\ last' = Call("get_calculation_data", u, run_id, force, "ok", run, ComputeData(run), FALSE,
                                {<<b, get_latest_parquet(run, b)>> : b \in {"result", "employee_summary"}})

\* DataAccessService.get_calculation_data(run_id, force_refresh) of user u
GetCalculationData(u, run_id, force) ==
    \E run \in ResolveCalculationRun(u, run_id) :
        /\ UNCHANGED <<runs, prefs, files, now, pref_table, calls>>
        /\ IF run = TypeError
           THEN /\ last' = Call("get_calculation_data", u, run_id, force, TypeError, None, NoData, FALSE, {})
                /\ UNCHANGED cache
           ELSE IF run = None
           THEN /\ last' = Call("get_calculation_data", u, run_id, force, "error", None, NoData, FALSE, {})
                /\ UNCHANGED cache
           ELSE IF ~force /\ Live(cache_key(u, run))
           THEN /\ last' = Call("get_calculation_data", u, run_id, force, "ok", run,
                                cache[cache_key(u, run)].value, TRUE, {})
                /\ UNCHANGED cache
           ELSE IF ~Readable(run, "result") \/ ~Readable(run, "employee_summary")
           THEN /\ last' = Call("get_calculation_data", u, run_id, force, "error", run, NoData, FALSE, {})
                /\ UNCHANGED cache
           ELSE /\ cache' = [cache EXCEPT ![cache_key(u, run)] =
                                [value |-> ComputeData(run), expires |-> now + CacheTTL]]
                /\ last' = Call("get_calculation_data", u, run_id, force, "ok", run, ComputeData(run), FALSE,
                                {<<b, get_latest_parquet(run, b)>> : b \in {"result", "employee_summary"}})

\* DataAccessService.get_current_run of user u
GetCurrentRun(u) ==
    \E run \in get_current_run(u) :
        /\ last' = Call("get_current_run", u, None, FALSE,
                        IF run = TypeError THEN TypeError ELSE "ok",
                        IF run = TypeError THEN None ELSE run, NoData, FALSE, {})
        /\ UNCHANGED <<runs, prefs, files, cache, now, pref_table, calls>>

\* DataAccessService.set_user_preferred_run(run) of user u; run is a row
SetUserPreferredRun(u, run) ==
    /\ runs[run].exists
    /\ prefs' = [prefs EXCEPT ![u] = run]
    /\ cache' = _invalidate_cache(u)
    /\ last' = Call("set_user_preferred_run", u, run, FALSE, "ok", run, NoData, FALSE, {})
    /\ UNCHANGED <<runs, files, now, pref_table, calls>>

\* DataAccessService.create_calculation_run(run_id, data_directory): run_id is
\* unique, so a second create with the same run_id raises and adds no row
CreateCalculationRun(u, run_id) ==
    /\ IF runs[run_id].exists
       THEN /\ last' = Call("create_calculation_run", u, run_id, FALSE, IntegrityError, None, NoData, FALSE, {})
            /\ UNCHANGED runs
       ELSE /\ runs' = [runs EXCEPT ![run_id] =
                           [exists |-> TRUE, status |-> "processing", created_at |-> now,
                            is_archived |-> FALSE, summary |-> <<0, 0>>]]
            /\ last' = Call("create_calculation_run", u, run_id, FALSE, "ok", run_id, NoData, FALSE, {})
    /\ UNCHANGED <<prefs, files, cache, now, pref_table, calls>>

\* DataAccessService.complete_calculation_run(run_id) of user u. save_raises:
\* the self.save(update_fields=[...]) of update_summary_cache raises (a total
\* that does not fit DecimalField(max_digits=15), a locked database); the status
\* was saved by the statement before and `except Exception` returns False
CompleteCalculationRunOutcome(u, run_id, save_raises) ==
    /\ save_raises => (runs[run_id].exists /\ load_summary_data(run_id) # <<0, 0>>)
    /\ IF ~runs[run_id].exists
       THEN /\ last' = Call("complete_calculation_run", u, run_id, FALSE, "False", None, NoData, FALSE, {})
            /\ UNCHANGED <<runs, cache>>
       ELSE IF save_raises
       THEN /\ runs' = [runs EXCEPT ![run_id].status = "completed"]
            /\ UNCHANGED cache
            /\ last' = Call("complete_calculation_run", u, run_id, FALSE, "False", run_id, NoData, FALSE,
                            {<<b, get_latest_parquet(run_id, b)>> : b \in {"result", "employee_summary"}})
       ELSE /\ runs' = [runs EXCEPT ![run_id].status = "completed",
                                    ![run_id].summary = update_summary_cache(run_id)]
            /\ cache' = _invalidate_cache(u)
            /\ last' = Call("complete_calculation_run", u, run_id, FALSE, "True", run_id, NoData, FALSE,
                            IF load_summary_data(run_id) # <<0, 0>>
                            THEN {<<b, get_latest_parquet(run_id, b)>> : b \in {"result", "employee_summary"}}
                            ELSE {})
    /\ UNCHANGED <<prefs, files, now, pref_table, calls>>

\* complete_calculation_run with saves that succeed
CompleteCalculationRun(u, run_id) == CompleteCalculationRunOutcome(u, run_id, FALSE)

\* DataAccessService.get_preferred_run(request) (static service), user u; ret
\* tells which step yielded the run
GetPreferredRun(u) ==
    \E run \in get_preferred_run(u) :
        /\ last' = Call("get_preferred_run", u, None, FALSE,
                        IF PreferenceUsable(u) THEN "preference" ELSE "latest", run, NoData, FALSE, {})
        /\ UNCHANGED <<runs, prefs, files, cache, now, pref_table, calls>>

\* a set_preferred_run that stores run_id without looking the run up
SetPreferredRunUnchecked(u, run_id) ==
    /\ prefs' = [prefs EXCEPT ![u] = run_id]
    /\ last' = Call("set_preferred_run", u, run_id, FALSE, "True", run_id, NoData, FALSE, {})
    /\ UNCHANGED <<runs, files, cache, now, pref_table, calls>>

\* DataAccessService.set_preferred_run(request, run_id) (static service), user u
SetPreferredRun(u, run_id) ==
    /\ IF runs[run_id].exists
       THEN /\ prefs' = [prefs EXCEPT ![u] = run_id]
            /\ last' = Call("set_preferred_run", u, run_id, FALSE, "True", run_id, NoData, FALSE, {})
       ELSE /\ last' = Call("set_preferred_run", u, run_id, FALSE, "False", None, NoData, FALSE, {})
            /\ UNCHANGED prefs
    /\ UNCHANGED <<runs, files, cache, now, pref_table, calls>>

\* DataAccessService.get_dashboard_context(request, run_id) (static service), user u
GetDashboardContext(u, run_id) ==
    \E run \in get_dashboard_context(u, run_id) :
        /\ last' = Call("get_dashboard_context", u, run_id, FALSE,
                        IF load_dashboard_data(run) THEN "available" ELSE "unavailable",
                        run, NoData, FALSE, load_dashboard_reads(run))
        /\ UNCHANGED <<runs, prefs, files, cache, now, pref_table, calls>>

\* a load_dashboard_data that removes the files it cannot read
LoadDashboardDataRemoving(run) ==
    /\ run # None => runs[run].exists
    /\ last' = Call("load_dashboard_data", None, run, FALSE,
                    IF load_dashboard_data(run) THEN "available" ELSE "unavailable",
                    run, NoData, FALSE, load_dashboard_reads(run))
    /\ files' = [k \in FileKeys |-> IF files[k] = Corrupt THEN 0 ELSE files[k]]
    /\ UNCHANGED <<runs, prefs, cache, now, pref_table, calls>>

\* DataAccessService.load_dashboard_data(run) (static service); run is a row or None
LoadDashboardData(run) ==
    /\ run # None => runs[run].exists
    /\ last' = Call("load_dashboard_data", None, run, FALSE,
                    IF load_dashboard_data(run) THEN "available" ELSE "unavailable",
                    run, NoData, FALSE, load_dashboard_reads(run))
    /\ UNCHANGED <<runs, prefs, files, cache, now, pref_table, calls>>

\* CalculationRun.get_latest_parquet(base_name) of run r
GetLatestParquet(r, base) ==
    /\ runs[r].exists
    /\ last' = [Call("get_latest_parquet", None, r, FALSE, get_latest_parquet(r, base), r,
                     NoData, FALSE, {}) EXCEPT !.table = base]
    /\ UNCHANGED <<runs, prefs, files, cache, now, pref_table, calls>>

\* load_dashboard_data from the point where the tables were read (lines 98-218):
\* the numbers it returns for the tables recorded in last
Aggregate ==
    /\ last.op = "read_parquet"
    /\ last' = [op |-> "load_dashboard_data",
                result_df |-> last.result_df,
                employee_summary_df |-> last.employee_summary_df,
                overall_kpis |-> overall_kpis(last.result_df, last.employee_summary_df),
                table_projets |-> table_projets(last.result_df, last.employee_summary_df)]
    /\ UNCHANGED <<runs, prefs, files, cache, now, pref_table, calls>>

\* a request thread enters set_preferred_run (svc "A", after it found the run) or
\* set_user_preferred_run (svc "B", which is handed the run)
BeginSetPreference(c, svc, u, run) ==
    /\ calls[c].pc = "idle"
    /\ runs[run].exists
    /\ calls' = [calls EXCEPT ![c] = [pc |-> "get", svc |-> svc, user |-> u, run |-> run, pk |-> 0]]
    /\ UNCHANGED <<runs, prefs, files, cache, now, last, pref_table>>

\* get_or_create, the SELECT: a row of the user makes created False; no row leads
\* to the INSERT; several rows raise MultipleObjectsReturned out of the call
GetPreference(c) ==
    /\ calls[c].pc = "get"
    /\ LET rows == RowsOfUser(pref_table, calls[c].user) IN
       IF rows = {}
       THEN calls' = [calls EXCEPT ![c].pc = "create"] /\ UNCHANGED last
       ELSE IF Cardinality(rows) = 1
       THEN calls' = [calls EXCEPT ![c].pc = "save", ![c].pk = CHOOSE i \in rows : TRUE] /\ UNCHANGED last
       ELSE calls' = [calls EXCEPT ![c] = Idle] /\ last' = SetReturn(c, "MultipleObjectsReturned")
    /\ UNCHANGED <<runs, prefs, files, cache, now, pref_table>>

\* get_or_create, the INSERT with defaults={'preferred_run': run}: refused by the
\* unique constraint (IntegrityError, caught by get_or_create) or done, created
\* is True and the call returns
CreatePreference(c) ==
    /\ calls[c].pc = "create"
    /\ IF UniqueViolation(pref_table, calls[c].user)
       THEN /\ calls' = [calls EXCEPT ![c].pc = "reget"]
            /\ UNCHANGED <<pref_table, prefs, last>>
       ELSE /\ pref_table' = Append(pref_table, [user_identifier |-> calls[c].user,
                                                preferred_run |-> calls[c].run])
            /\ prefs' = [prefs EXCEPT ![calls[c].user] = calls[c].run]
            /\ calls' = [calls EXCEPT ![c] = Idle]
            /\ last' = SetReturn(c, IF calls[c].svc = "A" THEN "True" ELSE "ok")
    /\ UNCHANGED <<runs, files, cache, now>>

\* get_or_create, the SELECT after the IntegrityError: the row that was in the
\* way is returned with created False; with no row the IntegrityError is raised
ReGetPreference(c) ==
    /\ calls[c].pc = "reget"
    /\ LET rows == RowsOfUser(pref_table, calls[c].user) IN
       IF Cardinality(rows) = 1
       THEN calls' = [calls EXCEPT ![c].pc = "save", ![c].pk = CHOOSE i \in rows : TRUE] /\ UNCHANGED last
       ELSE calls' = [calls EXCEPT ![c] = Idle]
            /\ last' = SetReturn(c, IF rows = {} THEN IntegrityError ELSE "MultipleObjectsReturned")
    /\ UNCHANGED <<runs, prefs, files, cache, now, pref_table>>

\* an `if not created` branch that stores the run in a new row of the user
SavePreferenceAppending(c) ==
    /\ calls[c].pc = "save"
    /\ pref_table' = Append(pref_table, [user_identifier |-> calls[c].user,
                                         preferred_run |-> calls[c].run])
    /\ prefs' = [prefs EXCEPT ![calls[c].user] = calls[c].run]
    /\ cache' = IF calls[c].svc = "B" THEN _invalidate_cache(calls[c].user) ELSE cache
    /\ calls' = [calls EXCEPT ![c] = Idle]
    /\ last' = SetReturn(c, IF calls[c].svc = "A" THEN "True" ELSE "ok")
    /\ UNCHANGED <<runs, files, now>>

\* `if not created`: preferred_run = run and save(), the UPDATE of the row; then
\* (svc "B") _invalidate_cache, and the call returns
SavePreference(c) ==
    /\ calls[c].pc = "save"
    /\ pref_table' = [pref_table EXCEPT ![calls[c].pk].preferred_run = calls[c].run]
    /\ prefs' = [prefs EXCEPT ![calls[c].user] = calls[c].run]
    /\ cache' = IF calls[c].svc = "B" THEN _invalidate_cache(calls[c].user) ELSE cache
    /\ calls' = [calls EXCEPT ![c] = Idle]
    /\ last' = SetReturn(c, IF calls[c].svc = "A" THEN "True" ELSE "ok")
    /\ UNCHANGED <<runs, files, now>>

\* DataAccessService.get_available_runs() (static service): the list it returns
GetAvailableRuns ==
    \E list \in order_by_created_at_desc(get_available_runs) :
        /\ last' = [op |-> "get_available_runs", user |-> None, include_running |-> FALSE, ret |-> list]
        /\ UNCHANGED <<runs, prefs, files, cache, now, pref_table, calls>>

\* DataAccessService.get_available_runs(include_running) of user u (per-user
\* service): the list it returns
ServiceGetAvailableRuns(u, include_running) ==
    \E list \in order_by_created_at_desc(service_get_available_runs(include_running)) :
        /\ last' = [op |-> "get_available_runs", user |-> u, include_running |-> include_running, ret |-> list]
        /\ UNCHANGED <<runs, prefs, files, cache, now, pref_table, calls>>

\* run.is_data_available read by a caller (a property of the row r)
IsDataAvailable(r) ==
    /\ runs[r].exists
    /\ last' = Call("is_data_available", None, r, FALSE,
                    IF is_data_available(r) THEN "True" ELSE "False", r, NoData, FALSE, {})
    /\ UNCHANGED <<runs, prefs, files, cache, now, pref_table, calls>>

\* run.has_updates read by a caller (a property of the row r)
HasUpdates(r) ==
    /\ runs[r].exists
    /\ last' = Call("has_updates", None, r, FALSE,
                    IF has_updates(r) THEN "True" ELSE "False", r, NoData, FALSE, {})
    /\ UNCHANGED <<runs, prefs, files, cache, now, pref_table, calls>>

\* get_calculation_data statement by statement, in slot c. Run selection: the
\* call goes on with the completed run it was given; otherwise get_current_run
\* raises or yields None and the call is over
BeginGetCalculationData(c, u, run_id, force) ==
    /\ calls[c].pc = "idle"
    /\ \E run \in ResolveCalculationRun(u, run_id) :
           IF run \in {TypeError, None}
           THEN /\ last' = Call("get_calculation_data", u, run_id, force,
                                IF run = TypeError THEN TypeError ELSE "error", None, NoData, FALSE, {})
                /\ UNCHANGED calls
           ELSE /\ calls' = [calls EXCEPT ![c] = [pc |-> "cache_get", svc |-> "get_calculation_data", user |-> u,
                                                  run |-> run, pk |-> 0, force |-> force, result |-> NoData]]
                /\ UNCHANGED last
    /\ UNCHANGED <<runs, prefs, files, cache, now, pref_table>>

\* `if not force_refresh: cached_data = cache.get(cache_key)`: a hit is returned
CacheGet(c) ==
    /\ calls[c].pc = "cache_get"
    /\ IF ~calls[c].force /\ Live(cache_key(calls[c].user, calls[c].run))
       THEN /\ last' = Call("get_calculation_data", calls[c].user, calls[c].run, calls[c].force, "ok",
                            calls[c].run, cache[cache_key(calls[c].user, calls[c].run)].value, TRUE, {})
            /\ calls' = [calls EXCEPT ![c] = Idle]
       ELSE /\ calls' = [calls EXCEPT ![c].pc = "read"]
            /\ UNCHANGED last
    /\ UNCHANGED <<runs, prefs, files, cache, now, pref_table>>

\* the try block up to `result = {...}`: the two files are read and the dict is
\* built; a file that is missing or cannot be read ends the call with the error dict
ReadAndCompute(c) ==
    /\ calls[c].pc = "read"
    /\ IF ~Readable(calls[c].run, "result") \/ ~Readable(calls[c].run, "employee_summary")
       THEN /\ last' = Call("get_calculation_data", calls[c].user, calls[c].run, calls[c].force, "error",
                            calls[c].run, NoData, FALSE, {})
            /\ calls' = [calls EXCEPT ![c] = Idle]
       ELSE /\ calls' = [calls EXCEPT ![c].pc = "cache_set", ![c].result = ComputeData(calls[c].run)]
            /\ UNCHANGED last
    /\ UNCHANGED <<runs, prefs, files, cache, now, pref_table>>

\* cache.set(cache_key, result, 3600) and `return result`
CacheSet(c) ==
    /\ calls[c].pc = "cache_set"
    /\ cache' = [cache EXCEPT ![cache_key(calls[c].user, calls[c].run)] =
                    [value |-> calls[c].result, expires |-> now + CacheTTL]]
    /\ last' = Call("get_calculation_data", calls[c].user, calls[c].run, calls[c].force, "ok",
                    calls[c].run, calls[c].result, FALSE,
                    {<<b, get_latest_parquet(calls[c].run, b)>> : b \in {"result", "employee_summary"}})
    /\ calls' = [calls EXCEPT ![c] = Idle]
    /\ UNCHANGED <<runs, prefs, files, now, pref_table>>

\* DashboardRessourceView.get with last_slr_run_id = r in the session
DashboardRessourceView(r) ==
    /\ last' = Call("dashboard_ressource_view", None, r, FALSE,
                    IF \A i \in DOMAIN ressource_view_paths :
                          files[<<r, ressource_view_paths[i][1], ressource_view_paths[i][2]>>]
                              \notin {0, Corrupt}
                    THEN "available" ELSE "unavailable",
                    r, NoData, FALSE, ReadsInOrder(r, ressource_view_paths, TRUE))
    /\ UNCHANGED <<runs, prefs, files, cache, now, pref_table, calls>>

\* export_all_tables_json with last_slr_run_id = r in the session; a file that
\* cannot be read is an uncaught exception of pd.read_parquet
ExportAllTablesJson(r) ==
    /\ last' = Call("export_all_tables_json", None, r, FALSE,
                    IF \E i \in 1..3 : files[<<r, export_paths(r)[i][1], export_paths(r)[i][2]>>] = Corrupt
                    THEN "error" ELSE "ok",
                    r, NoData, FALSE, ReadsInOrder(r, export_paths(r), FALSE))
    /\ UNCHANGED <<runs, prefs, files, cache, now, pref_table, calls>>

\* cache.set(cache_key, result, 3600) of a call with triple t; the value stored
\* is marked with the triple it was computed for
SetUnderKey(t) ==
    /\ cache' = [cache EXCEPT ![cache_key_string(t)] = t]
    /\ last' = [op |-> "cache_set", triple |-> t, key |-> cache_key_string(t), ret |-> t]
    /\ UNCHANGED <<runs, prefs, files, now, pref_table, calls>>

\* cached_data = cache.get(cache_key) of a call with triple t
GetUnderKey(t) ==
    /\ last' = [op |-> "cache_get", triple |-> t, key |-> cache_key_string(t),
                ret |-> cache[cache_key_string(t)]]
    /\ UNCHANGED <<runs, prefs, files, cache, now, pref_table, calls>>

(* ---------- the collaborators of the core (ingestion, editing) --------- *)

\* the ingestion pipeline marks a run it could not process as failed
MarkFailed(r) ==
    /\ runs[r].exists /\ runs[r].status = "processing"
    /\ runs' = [runs EXCEPT ![r].status = "failed"]
    /\ last' = EnvCall
    /\ UNCHANGED <<prefs, files, cache, now, pref_table, calls>>

\* the adjustment flow saves a manual adjustment of a completed run
ManualUpdate(r) ==
    /\ runs[r].exists /\ runs[r].status = "completed"
    /\ runs' = [runs EXCEPT ![r].status = "updated"]
    /\ last' = EnvCall
    /\ UNCHANGED <<prefs, files, cache, now, pref_table, calls>>

\* a run is archived (is_archived is a flag of the row)
Archive(r) ==
    /\ runs[r].exists /\ ~runs[r].is_archived
    /\ runs[r].status \in {"completed", "updated"}
    /\ runs' = [runs EXCEPT ![r].is_archived = TRUE]
    /\ last' = EnvCall
    /\ UNCHANGED <<prefs, files, cache, now, pref_table, calls>>

\* the pipeline writes <base>_<ver>.parquet with content c into the directory of r
WriteSnapshot(r, base, ver, c) ==
    /\ files[<<r, base, ver>>] # c
    /\ files' = [files EXCEPT ![<<r, base, ver>>] = c]
    /\ last' = EnvCall
    /\ UNCHANGED <<runs, prefs, cache, now, pref_table, calls>>

\* time passes, d seconds of it; entries whose expiry is reached are gone
Tick(d) ==
    /\ now + d <= MaxTicks * CacheTTL
    /\ now' = now + d
    /\ cache' = [k \in DOMAIN cache |-> IF cache[k].expires > now + d THEN cache[k] ELSE NoEntry]
    /\ last' = EnvCall
    /\ UNCHANGED <<runs, prefs, files, pref_table, calls>>

(* ---------------------------- specifications --------------------------- *)

\* the state after the migrations: no run, no preference, no file, empty cache
Init ==
    /\ runs = [r \in RunIds |-> NoRun]
    /\ prefs = [u \in Users |-> NoPref]
    /\ files = [k \in FileKeys |-> 0]
    /\ cache = [k \in Users \X RunIds |-> NoEntry]
    /\ now = 0
    /\ last = NoCall
    /\ pref_table = <<>>
    /\ calls = [c \in CallIds |-> Idle]

\* Spec: the run registry, the preference store and run selection by both
\* services, for one user; the pipeline writes the two files is_data_available
\* looks at
Next ==
    \/ \E r \in RunIds : CreateCalculationRun("u1", r)
    \/ \E r \in RunIds : CompleteCalculationRun("u1", r)
    \/ \E r \in RunIds : SetUserPreferredRun("u1", r)
    \/ GetCurrentRun("u1")
    \/ \E r \in RunIds : SetPreferredRun("u1", r)
    \/ GetPreferredRun("u1")
    \/ \E run_id \in RunIds \cup {None} : GetDashboardContext("u1", run_id)
    \/ \E r \in RunIds : MarkFailed(r)
    \/ \E r \in RunIds : ManualUpdate(r)
    \/ \E r \in RunIds : Archive(r)
    \/ \E r \in RunIds, b \in {"result", "employee_summary"} : WriteSnapshot(r, b, "initial", 1)
    \/ Tick(CacheTTL)

Spec == Init /\ [][Next]_vars

\* SpecSnapshot: the snapshot files of one run, every table in both versions
NextSnapshot ==
    \/ CreateCalculationRun("u1", "r1")
    \/ \E b \in Bases, v \in Versions, c \in 1..MaxContent : WriteSnapshot("r1", b, v, c)
    \/ \E b \in Bases : GetLatestParquet("r1", b)
    \/ IsDataAvailable("r1")
    \/ HasUpdates("r1")

SpecSnapshot == Init /\ [][NextSnapshot]_vars

\* SpecCache: get_calculation_data and its cache, two users and the run r1, which
\* was created and completed before any file was written
InitCache ==
    /\ runs = [r \in RunIds |-> IF r = "r1" THEN [NoRun EXCEPT !.exists = TRUE, !.status = "completed"]
                                ELSE NoRun]
    /\ prefs = [u \in Users |-> NoPref]
    /\ files = [k \in FileKeys |-> 0]
    /\ cache = [k \in Users \X RunIds |-> NoEntry]
    /\ now = 0
    /\ last = NoCall
    /\ pref_table = <<>>
    /\ calls = [c \in CallIds |-> Idle]

NextCache ==
    \/ \E u \in Users, run_id \in {"r1", None}, force \in BOOLEAN : GetCalculationData(u, run_id, force)
    \/ \E u \in Users : SetUserPreferredRun(u, "r1")
    \/ \E u \in Users : CompleteCalculationRun(u, "r1")
    \/ \E c \in 1..MaxContent : WriteSnapshot("r1", "result", "initial", c)
    \/ WriteSnapshot("r1", "employee_summary", "initial", 1)
    \/ Tick(CacheTTL \div 2)

SpecCache == InitCache /\ [][NextCache]_vars

\* SpecLoad: what load_dashboard_data, get_calculation_data and
\* complete_calculation_run make of the directory of one run, every file of which
\* is missing, readable or unreadable
NextLoad ==
    \/ CreateCalculationRun("u1", "r1")
    \/ CompleteCalculationRun("u1", "r1")
    \/ \E b \in Bases, v \in Versions, c \in {1, Corrupt} : WriteSnapshot("r1", b, v, c)
    \/ \E run \in {"r1", None} : LoadDashboardData(run)
    \/ \E run_id \in {"r1", None}, force \in BOOLEAN : GetCalculationData("u1", run_id, force)

SpecLoad == Init /\ [][NextLoad]_vars

\* SpecKpi: the numbers load_dashboard_data computes, for the tables below
MaxVal == 2
MaxRows == 1

\* sequences of at most n elements of S
RECURSIVE SeqsUpTo(_, _)
SeqsUpTo(S, n) ==
    IF n = 0 THEN {<<>>}
    ELSE LET shorter == SeqsUpTo(S, n - 1)
         IN  shorter \cup {Append(s, x) : s \in {t \in shorter : Len(t) = n - 1}, x \in S}

\* one project with every mix of budget, cost and hours, and employee tables of
\* at most MaxRows rows with every choice of columns (an absent column holds 0)
CostChainTables ==
    {[result_df |-> <<[Libelle_projet |-> "Alpha", Estimees |-> b, Adjusted_Cost |-> c, Ecart |-> c - b,
                       Total_Heures |-> th, Adjusted_Hours |-> ah]>>,
      employee_summary_df |-> [columns |-> cols, rows |-> rows]] :
        b \in 0..MaxVal, c \in 0..MaxVal, th \in -1..MaxVal, ah \in 0..MaxVal,
        <<cols, rows>> \in UNION {{<<cs, rs>> : rs \in SeqsUpTo(
                [Libelle_projet : {"Alpha"}, Nom : {"n1"},
                 Total : IF "Total" \in cs THEN -1..1 ELSE {0},
                 Rate : IF "Rate" \in cs THEN {0, 2} ELSE {0},
                 Total_Heures : IF "Total Heures" \in cs THEN 0..1 ELSE {0}], MaxRows)} :
            cs \in SUBSET {"Total", "Rate", "Total Heures"}}}

\* result tables of one or two rows with budgets and variances of either sign,
\* both rows possibly of the same project; employees of both projects
KpiTables ==
    {[result_df |-> df,
      employee_summary_df |-> [columns |-> {"Total"},
                               rows |-> <<[Libelle_projet |-> "Alpha", Nom |-> "n1", Total |-> 0, Rate |-> 0, Total_Heures |-> 0],
                                          [Libelle_projet |-> "Beta", Nom |-> "n1", Total |-> 1, Rate |-> 0, Total_Heures |-> 0]>>]] :
        df \in SeqsUpTo([Libelle_projet : {"Alpha", "Beta"}, Estimees : -1..1, Adjusted_Cost : 0..1,
                         Ecart : -1..1, Total_Heures : {0}, Adjusted_Hours : {0}], 2) \ {<<>>}}

\* projects Alpha and Beta with budgets 1000 and 2000 and adjusted costs 1100 and 1800
AlphaBetaTables ==
    [result_df |-> <<[Libelle_projet |-> "Alpha", Estimees |-> 1000, Adjusted_Cost |-> 1100, Ecart |-> 100,
                      Total_Heures |-> 0, Adjusted_Hours |-> 0],
                     [Libelle_projet |-> "Beta", Estimees |-> 2000, Adjusted_Cost |-> 1800, Ecart |-> -200,
                      Total_Heures |-> 0, Adjusted_Hours |-> 0]>>,
     employee_summary_df |-> [columns |-> {"Total", "Rate", "Total Heures"}, rows |-> <<>>]]

\* the three read_parquet calls of load_dashboard_data returned these tables
InitKpi ==
    /\ runs = [r \in RunIds |-> NoRun]
    /\ prefs = [u \in Users |-> NoPref]
    /\ files = [k \in FileKeys |-> 0]
    /\ cache = [k \in Users \X RunIds |-> NoEntry]
    /\ now = 0
    /\ \E t \in CostChainTables \cup KpiTables \cup {AlphaBetaTables} :
           last = [op |-> "read_parquet", result_df |-> t.result_df,
                   employee_summary_df |-> t.employee_summary_df]
    /\ pref_table = <<>>
    /\ calls = [c \in CallIds |-> Idle]

NextKpi == Aggregate

SpecKpi == InitKpi /\ [][NextKpi]_vars

\* SpecPref: calls of set_preferred_run and set_user_preferred_run of one user
\* running statement by statement against the preference table; r1 and r2 are
\* completed
InitPref ==
    /\ runs = [r \in RunIds |-> [NoRun EXCEPT !.exists = TRUE, !.status = "completed"]]
    /\ prefs = [u \in Users |-> NoPref]
    /\ files = [k \in FileKeys |-> 0]
    /\ cache = [k \in Users \X RunIds |-> NoEntry]
    /\ now = 0
    /\ last = NoCall
    /\ pref_table = <<>>
    /\ calls = [c \in CallIds |-> Idle]

NextPref ==
    \/ \E c \in CallIds, svc \in {"A", "B"}, run \in RunIds : BeginSetPreference(c, svc, "u1", run)
    \/ \E c \in CallIds : GetPreference(c)
    \/ \E c \in CallIds : CreatePreference(c)
    \/ \E c \in CallIds : ReGetPreference(c)
    \/ \E c \in CallIds : SavePreference(c)

SpecPref == InitPref /\ [][NextPref]_vars

\* SpecList: the run listings of both services over the registry
NextList ==
    \/ \E r \in RunIds : CreateCalculationRun("u1", r)
    \/ \E r \in RunIds : CompleteCalculationRun("u1", r)
    \/ \E r \in RunIds : MarkFailed(r)
    \/ \E r \in RunIds : ManualUpdate(r)
    \/ \E r \in RunIds : Archive(r)
    \/ Tick(CacheTTL)
    \/ GetAvailableRuns
    \/ \E include_running \in BOOLEAN : ServiceGetAvailableRuns("u1", include_running)
    \/ GetPreferredRun("u1")

SpecList == Init /\ [][NextList]_vars

\* SpecFrame: every operation of the two services on one run and one user, next
\* to the pipeline that writes the result and employee_summary files
NextFrame ==
    \/ CreateCalculationRun("u1", "r1")
    \/ CompleteCalculationRun("u1", "r1")
    \/ SetUserPreferredRun("u1", "r1")
    \/ \E r \in RunIds : SetPreferredRun("u1", r)
    \/ GetCurrentRun("u1")
    \/ GetPreferredRun("u1")
    \/ \E run_id \in {"r1", None} : GetDashboardContext("u1", run_id)
    \/ \E run \in {"r1", None} : LoadDashboardData(run)
    \/ \E run_id \in {"r1", None}, force \in BOOLEAN : GetCalculationData("u1", run_id, force)
    \/ GetAvailableRuns
    \/ ServiceGetAvailableRuns("u1", FALSE)
    \/ \E b \in Bases : GetLatestParquet("r1", b)
    \/ \E b \in {"result", "employee_summary"}, v \in Versions, c \in {1, Corrupt} : WriteSnapshot("r1", b, v, c)

SpecFrame == Init /\ [][NextFrame]_vars

\* SpecMiss: calls of get_calculation_data for the completed run r1 running
\* statement by statement, while the pipeline rewrites result_initial
NextMiss ==
    \/ \E c \in CallIds, run_id \in {"r1", None} : BeginGetCalculationData(c, "u1", run_id, FALSE)
    \/ \E c \in CallIds : CacheGet(c)
    \/ \E c \in CallIds : ReadAndCompute(c)
    \/ \E c \in CallIds : CacheSet(c)
    \/ \E c \in 1..MaxContent : WriteSnapshot("r1", "result", "initial", c)
    \/ WriteSnapshot("r1", "employee_summary", "initial", 1)
    \/ Tick(CacheTTL)

SpecMiss == InitCache /\ [][NextMiss]_vars

\* SpecViews: every component that loads the tables of run r1, next to the
\* pipeline that writes the initial and the updated files
NextViews ==
    \/ CreateCalculationRun("u1", "r1")
    \/ CompleteCalculationRun("u1", "r1")
    \/ LoadDashboardData("r1")
    \/ GetCalculationData("u1", "r1", FALSE)
    \/ DashboardRessourceView("r1")
    \/ ExportAllTablesJson("r1")
    \/ \E b \in Tables, v \in Versions : WriteSnapshot("r1", b, v, 1)
    \/ WriteSnapshot("r1", "result", "updated", Corrupt)

SpecViews == Init /\ [][NextViews]_vars

\* SpecUpdate: set_preferred_run calls of u1 and set_user_preferred_run calls of
\* u2 running statement by statement against the preference table, next to the
\* reads of the preference
NextUpdate ==
    \/ \E c \in CallIds, run \in RunIds : BeginSetPreference(c, "A", "u1", run)
    \/ \E c \in CallIds, run \in RunIds : BeginSetPreference(c, "B", "u2", run)
    \/ \E c \in CallIds : GetPreference(c)
    \/ \E c \in CallIds : CreatePreference(c)
    \/ \E c \in CallIds : ReGetPreference(c)
    \/ \E c \in CallIds : SavePreference(c)
    \/ GetPreferredRun("u1")

SpecUpdate == InitPref /\ [][NextUpdate]_vars

\* SpecComplete: create_calculation_run and complete_calculation_run of r1 and of
\* r2, which is never created, with a summary save that succeeds or raises, next
\* to the pipeline that writes the two files of r1
NextComplete ==
    \/ CreateCalculationRun("u1", "r1")
    \/ \E r \in RunIds, save_raises \in BOOLEAN : CompleteCalculationRunOutcome("u1", r, save_raises)
    \/ \E b \in {"result", "employee_summary"}, v \in Versions, c \in 1..MaxContent :
           WriteSnapshot("r1", b, v, c)

SpecComplete == Init /\ [][NextComplete]_vars

\* SpecKey: the cache as a store of values under key strings, written and read
\* by calls of every triple
InitKey ==
    /\ runs = [r \in RunIds |-> NoRun]
    /\ prefs = [u \in Users |-> NoPref]
    /\ files = [k \in FileKeys |-> 0]
    /\ cache = [k \in {cache_key_string(t) : t \in Triples} |-> NoValue]
    /\ now = 0
    /\ last = NoCall
    /\ pref_table = <<>>
    /\ calls = [c \in CallIds |-> Idle]

NextKey ==
    \/ \E t \in Triples : SetUnderKey(t)
    \/ \E t \in Triples : GetUnderKey(t)

SpecKey == InitKey /\ [][NextKey]_vars

(* -------------------------------- claims ------------------------------- *)

\* statuses run selection accepts
Acceptable == {"completed", "updated"}

\* the calls that resolve a run when no run_id is given
Resolutions == {"get_preferred_run", "get_current_run"}

\* the user's stored preference is set, its status is acceptable and its data
\* is available
UsablePreference(u) ==
    /\ prefs[u] # NoPref
    /\ runs[prefs[u]].status \in Acceptable
    /\ is_data_available(prefs[u])

\* the most recently created runs among those with an acceptable status that are
\* not archived, None when there is no such run
MostRecentEligible ==
    LET eligible == {r \in RunIds : runs[r].exists /\ runs[r].status \in Acceptable /\ ~runs[r].is_archived}
    IN  IF eligible = {} THEN {None}
        ELSE {r \in eligible : \A q \in eligible : runs[q].created_at <= runs[r].created_at}

\* C1: with no run_id given, the stored preferred run is returned through the
\* preference step only if its status is completed or updated and its data is
\* available.
C1_PreferenceNeedsStatusAndData ==
    (last.op = "get_preferred_run" /\ last.ret = "preference")
        => (runs[last.run].status \in Acceptable /\ is_data_available(last.run))

\* C2: when the user has no usable preference, resolution returns the most
\* recently created run with status completed or updated that is not archived,
\* and None only when there is no such run.
C2_FallbackIsMostRecentEligible ==
    (last.op \in Resolutions /\ ~UsablePreference(last.user))
        => (last.ret # TypeError /\ last.run \in MostRecentEligible)

\* C3: a supplied run_id is used if the run exists with status completed or
\* updated; otherwise resolution falls through to the stored preference and then
\* to the most recent run. Stated here for a run_id that matches no run.
C3_UnknownRunIdFallsThrough ==
    (last.op = "get_dashboard_context" /\ last.run_id # None /\ ~runs[last.run_id].exists)
        => last.run \in (IF UsablePreference(last.user) THEN {prefs[last.user]} ELSE MostRecentEligible)

\* C4: run resolution is total: it ends with a run or None and never raises.
C4_ResolutionNeverRaises ==
    last.op \in Resolutions => last.ret # TypeError

\* C5: right after set_preference(u, r) succeeded for a run r that is completed
\* and whose data is available, resolving for u with no run_id returns r.
C5_SetThenResolve ==
    [][(/\ last.op \in {"set_preferred_run", "set_user_preferred_run"}
        /\ last.ret \in {"ok", "True"}
        /\ runs[last.run].status = "completed"
        /\ is_data_available(last.run)
        /\ last'.op \in Resolutions
        /\ last'.user = last.user)
           => (last'.ret # TypeError /\ last'.run = last.run)]_vars

\* C6: resolution is deterministic: a second call with the same user on the same
\* registry, preference and file state returns the run the first call returned.
C6_ResolutionDeterministic ==
    [][(/\ last.op \in Resolutions
        /\ last'.op = last.op
        /\ last'.user = last.user
        /\ UNCHANGED <<runs, prefs, files>>)
           => last'.run = last.run]_vars

\* C7: get_latest_parquet returns the updated file when it exists, the initial
\* file when only the initial one exists, and None when neither exists, for
\* every table.
C7_LatestParquet ==
    last.op = "get_latest_parquet" =>
        /\ FileExists(last.run_id, last.table, "updated") => last.ret = "updated"
        /\ (~FileExists(last.run_id, last.table, "updated") /\ FileExists(last.run_id, last.table, "initial"))
               => last.ret = "initial"
        /\ (~FileExists(last.run_id, last.table, "updated") /\ ~FileExists(last.run_id, last.table, "initial"))
               => last.ret = None

\* get_latest_parquet was asked for a table that has both versions
C7_Witness ==
    /\ last.op = "get_latest_parquet"
    /\ FileExists(last.run_id, last.table, "updated")
    /\ FileExists(last.run_id, last.table, "initial")
    /\ last.ret = "updated"

\* C8: the status of a run only moves processing -> completed, processing ->
\* failed or completed -> updated.
C8_StatusTransitions ==
    [][\A r \in RunIds :
          (runs[r].exists /\ runs'[r].status # runs[r].status)
              => <<runs[r].status, runs'[r].status>> \in
                     {<<"processing", "completed">>, <<"processing", "failed">>, <<"completed", "updated">>}]_vars

\* C9: after the cache invalidation of a user ran (set_user_preferred_run,
\* complete_calculation_run), that user's next get_calculation_data without
\* force_refresh does not return a value from the cache.
C9_InvalidateForcesRecompute ==
    [][(/\ last.op \in {"set_user_preferred_run", "complete_calculation_run"}
        /\ last.ret \in {"ok", "True"}
        /\ last'.op = "get_calculation_data"
        /\ last'.user = last.user
        /\ ~last'.force
        /\ last'.ret = "ok")
           => ~last'.from_cache]_vars

\* C10: when the cache holds a value for (user, run) and force_refresh is false,
\* get_calculation_data returns that value, reads no snapshot file and writes
\* nothing to the cache.
C10_HitReturnsStoredValue ==
    [][(/\ last'.op = "get_calculation_data"
        /\ ~last'.force
        /\ last'.run # None
        /\ cache[cache_key(last'.user, last'.run)].expires > now)
           => (/\ last'.ret = "ok"
               /\ last'.data = cache[cache_key(last'.user, last'.run)].value
               /\ last'.reads = {}
               /\ cache' = cache)]_vars

\* a call was answered from the cache with a value the files no longer give
C10_Witness ==
    /\ last.op = "get_calculation_data"
    /\ last.from_cache
    /\ last.data # ComputeData(last.run)

BothInitialFilesExist(r) ==
    FileExists(r, "result", "initial") /\ FileExists(r, "employee_summary", "initial")

\* C12: for no run and for a run whose is_data_available is false,
\* load_dashboard_data returns data_available = False (with the error text 'No
\* data available') and opens no snapshot file; a call never raises.
C12_UnavailableRunReadsNothing ==
    (last.op = "load_dashboard_data" /\ (last.run = None \/ ~BothInitialFilesExist(last.run)))
        => (last.ret = "unavailable" /\ last.reads = {})

\* load_dashboard_data was given a run that has files, but not both initial
\* files is_data_available asks for
C12_Witness ==
    /\ last.op = "load_dashboard_data"
    /\ last.run # None
    /\ DirExists(last.run)
    /\ ~BothInitialFilesExist(last.run)
    /\ get_latest_parquet(last.run, "result") # None
    /\ last.ret = "unavailable"

\* the call recorded in last was made for run r and went past the cache:
\* load_dashboard_data(r), or a get_calculation_data that names r or names no run
\* while r is the only run there is
AggregatesRun(r) ==
    \/ last.op = "load_dashboard_data" /\ last.run = r
    \/ /\ last.op = "get_calculation_data"
       /\ ~last.from_cache
       /\ \/ last.run_id = r
          \/ last.run_id = None /\ {q \in RunIds : runs[q].exists} = {r}

\* the tables the call recorded in last reads
RequiredTables ==
    IF last.op = "load_dashboard_data" THEN Bases ELSE {"result", "employee_summary"}

\* C13: aggregation never raises: for a data-available run one of whose required
\* tables is missing or unreadable, load_dashboard_data and get_calculation_data
\* return a result tagged unavailable (data_available False, resp. an 'error'
\* entry), whatever files are present.
C13_AggregationNeverRaises ==
    \A r \in RunIds :
        (/\ runs[r].exists
         /\ is_data_available(r)
         /\ AggregatesRun(r)
         /\ \E b \in RequiredTables : ~Readable(r, b))
            => last.ret \in {"unavailable", "error"}

\* the employee rows of the project of entry i of table_projets, and the sums
\* the claims speak of
EntrySlice(i) == RowsOf(last.employee_summary_df.rows, last.table_projets[i].Libelle_projet)
EntryTotalSum(i) == Sum([k \in 1..Len(EntrySlice(i)) |-> EntrySlice(i)[k].Total])
EntryRateSum(i) == Sum([k \in 1..Len(EntrySlice(i)) |-> EntrySlice(i)[k].Rate * EntrySlice(i)[k].Total_Heures])

\* strategy (a) resp. (b) applies to entry i
UsesTotalColumn(i) == "Total" \in last.employee_summary_df.columns /\ EntryTotalSum(i) > 0
UsesRateTimesHours(i) ==
    /\ {"Rate", "Total Heures"} \subseteq last.employee_summary_df.columns
    /\ EntryRateSum(i) > 0

\* C14: the realized cost of a project is (a) the sum of the Total column of its
\* employee rows when the column is there and the sum is > 0; else (b) the sum of
\* Rate x Total Heures when both columns are there and the sum is > 0; else (c)
\* realized hours x (adjusted cost / adjusted hours) when realized and adjusted
\* hours are > 0; else (d) 0.8 x estimated budget when the realized hours are 0.
C14_RealizedCostChain ==
    last.op = "load_dashboard_data" =>
        \A i \in 1..Len(last.table_projets) :
            LET entry == last.table_projets[i] IN
            /\ UsesTotalColumn(i) => FracEq(entry.Total, Whole(EntryTotalSum(i)))
            /\ (~UsesTotalColumn(i) /\ UsesRateTimesHours(i)) => FracEq(entry.Total, Whole(EntryRateSum(i)))
            /\ (~UsesTotalColumn(i) /\ ~UsesRateTimesHours(i) /\ entry.Total_Heures > 0 /\ entry.Adjusted_Hours > 0)
                   => FracEq(entry.Total, Frac(entry.Total_Heures * entry.Adjusted_Cost, entry.Adjusted_Hours))
            /\ (~UsesTotalColumn(i) /\ ~UsesRateTimesHours(i) /\ entry.Total_Heures = 0)
                   => FracEq(entry.Total, Frac(entry.Estimees * 8, 10))

\* a project whose Total column is there with a sum that is not positive, and
\* whose cost was taken from Rate x Total Heures, which differs
C14_Witness ==
    /\ last.op = "load_dashboard_data"
    /\ \E i \in 1..Len(last.table_projets) :
           /\ "Total" \in last.employee_summary_df.columns
           /\ EntryTotalSum(i) < EntryRateSum(i)
           /\ ~UsesTotalColumn(i)
           /\ UsesRateTimesHours(i)
           /\ last.table_projets[i].Total = Whole(EntryRateSum(i))

\* the fraction p is the number 0 resp. the number ecart / budget x 100
IsZero(p) == p[2] # 0 /\ p[1] = 0
IsPercentOf(p, ecart, budget) == p[2] # 0 /\ p[1] * budget = ecart * 100 * p[2]

\* C15: the percent-adjustment, overall and of every project, is 0 when the
\* estimated budget it is taken over is 0 and variance / budget x 100 otherwise;
\* it is always a number (no division by zero).
C15_PercentAdjustment ==
    last.op = "load_dashboard_data" =>
        /\ IF last.overall_kpis.totalBudgetEstime = 0
           THEN IsZero(last.overall_kpis.pctAjustement)
           ELSE IsPercentOf(last.overall_kpis.pctAjustement, last.overall_kpis.totalEcart,
                            last.overall_kpis.totalBudgetEstime)
        /\ \A i \in 1..Len(last.table_projets) :
               IF last.table_projets[i].Estimees = 0
               THEN IsZero(last.table_projets[i].pctAjustement)
               ELSE IsPercentOf(last.table_projets[i].pctAjustement, last.table_projets[i].Ecart,
                                last.table_projets[i].Estimees)

\* budgets that are not 0 and cancel to an overall budget of 0, with a variance
\* that is not 0
C15_Witness ==
    /\ last.op = "load_dashboard_data"
    /\ last.overall_kpis.totalBudgetEstime = 0
    /\ last.overall_kpis.totalEcart # 0
    /\ \E i \in 1..Len(last.table_projets) : last.table_projets[i].Estimees # 0
    /\ last.overall_kpis.pctAjustement = Whole(0)

\* the absolute value of n
Abs(n) == IF n < 0 THEN -n ELSE n

\* the fraction p, written with two decimals, is -3.33: it is within 0.005 of it
ShowsMinus333(p) == p[2] # 0 /\ 2 * Abs(100 * p[1] + 333 * p[2]) < Abs(p[2])

\* the result table holds Alpha with budget 1000 and adjusted cost 1100 and Beta
\* with 2000 and 1800, the variance of a row being adjusted minus estimated
IsAlphaBeta(df) ==
    /\ Len(df) = 2
    /\ df[1].Libelle_projet = "Alpha" /\ df[1].Estimees = 1000 /\ df[1].Adjusted_Cost = 1100
    /\ df[2].Libelle_projet = "Beta" /\ df[2].Estimees = 2000 /\ df[2].Adjusted_Cost = 1800
    /\ \A i \in 1..2 : df[i].Ecart = df[i].Adjusted_Cost - df[i].Estimees

\* C16: the overall KPIs are the column sums of the result table; for the table
\* of Alpha and Beta they are total budget 3000, total adjusted cost 2900, total
\* variance -100 and percent-adjustment -100 / 3000 x 100, shown as -3.33.
C16_OverallKpisAreColumnSums ==
    last.op = "load_dashboard_data" =>
        /\ last.overall_kpis.totalBudgetEstime =
               Sum([i \in 1..Len(last.result_df) |-> last.result_df[i].Estimees])
        /\ last.overall_kpis.totalAdjustedCost =
               Sum([i \in 1..Len(last.result_df) |-> last.result_df[i].Adjusted_Cost])
        /\ last.overall_kpis.totalEcart =
               Sum([i \in 1..Len(last.result_df) |-> last.result_df[i].Ecart])
        /\ IsAlphaBeta(last.result_df) =>
               /\ last.overall_kpis.totalBudgetEstime = 3000
               /\ last.overall_kpis.totalAdjustedCost = 2900
               /\ last.overall_kpis.totalEcart = -100
               /\ last.overall_kpis.totalProjects = 2
               /\ IsPercentOf(last.overall_kpis.pctAjustement, -100, 3000)
               /\ ShowsMinus333(last.overall_kpis.pctAjustement)

\* the table of Alpha and Beta was aggregated
C16_Witness ==
    /\ last.op = "load_dashboard_data"
    /\ IsAlphaBeta(last.result_df)
    /\ last.overall_kpis.totalEcart = -100

\* C17: however the statements of two or more set-preference calls of one user
\* interleave, two first-time calls included, the table never holds more than
\* one row of that user, and a row that is inserted or updated gets the run
\* passed by a call in progress for that user.
C17_OneRowPerUser ==
    [][/\ \A u \in Users : Cardinality({i \in 1..Len(pref_table') : pref_table'[i].user_identifier = u}) <= 1
       /\ \A i \in 1..Len(pref_table') :
              (i > Len(pref_table) \/ pref_table'[i] # pref_table[i])
                  => \E c \in CallIds : /\ calls[c].pc # "idle"
                                        /\ calls[c].user = pref_table'[i].user_identifier
                                        /\ calls[c].run = pref_table'[i].preferred_run]_vars

\* two first-time calls of one user raced: the INSERT of this one was refused
\* because the other's row, with another run, is there
C17_Witness ==
    \E c \in CallIds :
        /\ calls[c].pc = "reget"
        /\ \E i \in 1..Len(pref_table) :
               /\ pref_table[i].user_identifier = calls[c].user
               /\ pref_table[i].preferred_run # calls[c].run

\* C18: set_preferred_run with a run_id that matches no run returns False (it
\* does not raise) and leaves the preference store as it was: no row is created
\* and the preferred run of an existing row is not modified.
C18_UnknownRunLeavesPreference ==
    [][(last'.op = "set_preferred_run" /\ ~runs[last'.run_id].exists)
           => (last'.ret = "False" /\ prefs' = prefs /\ pref_table' = pref_table)]_vars

\* set_preferred_run returned False for a user who has a preference stored
C18_Witness ==
    /\ last.op = "set_preferred_run"
    /\ last.ret = "False"
    /\ ~runs[last.run_id].exists
    /\ prefs[last.user] # NoPref

\* C19: the run listing (get_available_runs of either service, called without
\* include_running) holds exactly the runs with status completed or updated that
\* are not archived, each once, newest first, so that its first element is a run
\* the most-recent-run fallback can select.
C19_ListingIsEligibleNewestFirst ==
    (last.op = "get_available_runs" /\ ~last.include_running) =>
        /\ {last.ret[i] : i \in DOMAIN last.ret} =
               {r \in RunIds : runs[r].exists /\ runs[r].status \in Acceptable /\ ~runs[r].is_archived}
        /\ \A i, j \in DOMAIN last.ret : i < j =>
               (last.ret[i] # last.ret[j] /\ runs[last.ret[i]].created_at >= runs[last.ret[j]].created_at)
        /\ last.ret # <<>> => last.ret[1] \in MostRecentEligible

\* C20: when the latest result or employee_summary file of the run is missing or
\* cannot be read, complete_calculation_run leaves the summary numbers of the
\* run as they were and returns True: no error reaches its caller.
C20_SummaryRefreshBestEffort ==
    [][(/\ last'.op = "complete_calculation_run"
        /\ runs[last'.run_id].exists
        /\ \E b \in {"result", "employee_summary"} : ~Readable(last'.run_id, b))
           => (/\ runs'[last'.run_id].summary = runs[last'.run_id].summary
               /\ last'.ret = "True")]_vars

\* a run that has summary numbers was completed again while its latest result
\* file cannot be read, and kept the numbers
C20_Witness ==
    /\ last.op = "complete_calculation_run"
    /\ last.ret = "True"
    /\ runs[last.run_id].summary # <<0, 0>>
    /\ get_latest_parquet(last.run_id, "result") # None
    /\ ~Readable(last.run_id, "result")

\* C21: is_data_available of a run is True exactly when result_initial and
\* employee_summary_initial are in its directory, whatever updated files and
\* adjusted files there are; has_updates is True exactly when result_updated is.
C21_AvailabilityAndUpdates ==
    /\ last.op = "is_data_available" =>
           (last.ret = "True" <=> (/\ FileExists(last.run_id, "result", "initial")
                                   /\ FileExists(last.run_id, "employee_summary", "initial")))
    /\ last.op = "has_updates" =>
           (last.ret = "True" <=> FileExists(last.run_id, "result", "updated"))

\* a run with updated result and employee_summary files and an adjusted file,
\* but no result_initial, was found not available
C21_Witness ==
    /\ last.op = "is_data_available"
    /\ last.ret = "False"
    /\ FileExists(last.run_id, "result", "updated")
    /\ FileExists(last.run_id, "employee_summary", "updated")
    /\ FileExists(last.run_id, "employee_summary", "initial")
    /\ FileExists(last.run_id, "adjusted", "initial")

\* C22: no operation of the two services (run selection, set preference,
\* aggregation, cached retrieval, run creation, run completion with its summary
\* refresh, listings) creates, modifies or deletes a snapshot file: only a step
\* of the pipeline changes the files.
C22_CoreLeavesFiles ==
    [][last'.op # "env" => files' = files]_vars

\* get_calculation_data computed its result from files it read
C22_Witness ==
    /\ last.op = "get_calculation_data"
    /\ last.ret = "ok"
    /\ ~last.from_cache
    /\ last.reads # {}
    /\ \E k \in FileKeys : files[k] = Corrupt

\* two dicts were computed from the same content of the two files
SameFilesRead(d1, d2) == d1.projects = d2.projects /\ d1.employees = d2.employees

\* C23: when two get_calculation_data calls both miss the cache for the same
\* (user, run) and read the same files, they compute equal results; each returns
\* the result it computed and stores it, so the cache holds that result
\* whichever cache.set comes last.
C23_ConcurrentMissesAgree ==
    [][/\ \A c, d \in CallIds :
              (/\ calls'[c].pc = "cache_set" /\ calls'[d].pc = "cache_set"
               /\ calls'[c].user = calls'[d].user /\ calls'[c].run = calls'[d].run
               /\ SameFilesRead(calls'[c].result, calls'[d].result))
                  => calls'[c].result = calls'[d].result
       /\ \A c \in CallIds :
              (calls[c].pc = "cache_set" /\ calls'[c].pc = "idle")
                  => (/\ last'.ret = "ok"
                      /\ last'.data = calls[c].result
                      /\ cache'[<<calls[c].user, calls[c].run>>].value = calls[c].result)
       /\ \A c \in CallIds :
              (/\ calls'[c].pc = "cache_set"
               /\ cache'[<<calls'[c].user, calls'[c].run>>].expires > 0
               /\ SameFilesRead(calls'[c].result, cache'[<<calls'[c].user, calls'[c].run>>].value))
                  => cache'[<<calls'[c].user, calls'[c].run>>].value = calls'[c].result]_vars

\* two calls missed the cache for the same user and run, both computed and none
\* has stored yet
C23_Witness ==
    \E c, d \in CallIds :
        /\ c # d
        /\ calls[c].pc = "cache_set" /\ calls[d].pc = "cache_set"
        /\ calls[c].user = calls[d].user /\ calls[c].run = calls[d].run
        /\ calls[c].result = calls[d].result
        /\ now > 0

\* the calls that load the tables of a run
LoadsTables ==
    last.op \in {"load_dashboard_data", "get_calculation_data", "complete_calculation_run",
                 "dashboard_ressource_view", "export_all_tables_json"}

\* C24: whenever the updated version of a table exists, every component that
\* loads that table (load_dashboard_data, get_calculation_data,
\* load_summary_data, the resource dashboard view, the export view) reads the
\* updated file and never the initial one.
C24_UpdatedWinsEverywhere ==
    LoadsTables =>
        \A rd \in last.reads : FileExists(last.run, rd[1], "updated") => rd[2] = "updated"

\* the same for the components other than the resource dashboard view
C24_UpdatedWinsOutsideRessourceView ==
    (LoadsTables /\ last.op # "dashboard_ressource_view") =>
        \A rd \in last.reads : FileExists(last.run, rd[1], "updated") => rd[2] = "updated"

\* neither the Total column nor Rate x Total Heures gave a cost for entry i
NothingFromEmployees(i) == ~UsesTotalColumn(i) /\ ~UsesRateTimesHours(i)

\* C25: when the Total column and Rate x Total Heures yield nothing and the
\* realized hours are > 0, the realized cost is realized hours x effective rate,
\* the rate being adjusted cost / adjusted hours when the adjusted hours are > 0
\* and 500 otherwise; that product is kept even when it is zero, and 0.8 x the
\* estimated budget is used only when the realized hours are not > 0.
C25_EstimateFromHours ==
    last.op = "load_dashboard_data" =>
        \A i \in 1..Len(last.table_projets) :
            LET entry == last.table_projets[i] IN
            /\ (NothingFromEmployees(i) /\ entry.Total_Heures > 0 /\ entry.Adjusted_Hours > 0)
                   => FracEq(entry.Total, Frac(entry.Total_Heures * entry.Adjusted_Cost, entry.Adjusted_Hours))
            /\ (NothingFromEmployees(i) /\ entry.Total_Heures > 0 /\ ~(entry.Adjusted_Hours > 0))
                   => FracEq(entry.Total, Whole(entry.Total_Heures * 500))
            /\ (NothingFromEmployees(i) /\ ~(entry.Total_Heures > 0))
                   => FracEq(entry.Total, Frac(entry.Estimees * 8, 10))

\* a project with realized and adjusted hours, an adjusted cost of zero and a
\* budget: its realized cost is the zero product and not the share of the budget
C25_Witness ==
    /\ last.op = "load_dashboard_data"
    /\ \E i \in 1..Len(last.table_projets) :
           LET entry == last.table_projets[i] IN
           /\ NothingFromEmployees(i)
           /\ entry.Total_Heures > 0
           /\ entry.Adjusted_Hours > 0
           /\ entry.Adjusted_Cost = 0
           /\ entry.Estimees > 0
           /\ IsZero(entry.Total)
           /\ ~FracEq(entry.Total, Frac(entry.Estimees * 8, 10))

\* C26: a set-preference call for a user who already has a record updates it in
\* place: the number of records is unchanged, only that user's preferred run
\* changes and no other user's record is modified; and no core operation ever
\* deletes a record.
C26_UpdateInPlace ==
    [][/\ \A c \in CallIds :
              (/\ calls'[c] # calls[c]
               /\ calls[c].pc # "idle"
               /\ \E i \in 1..Len(pref_table) : pref_table[i].user_identifier = calls[c].user)
                  => /\ Len(pref_table') = Len(pref_table)
                     /\ \A i \in 1..Len(pref_table) :
                            pref_table'[i] # pref_table[i]
                                => /\ pref_table[i].user_identifier = calls[c].user
                                   /\ pref_table'[i] = [user_identifier |-> calls[c].user,
                                                        preferred_run |-> calls[c].run]
                     /\ \A u \in Users \ {calls[c].user} : prefs'[u] = prefs[u]
       /\ Len(pref_table') >= Len(pref_table)
       /\ \A i \in 1..Len(pref_table) :
              pref_table'[i].user_identifier = pref_table[i].user_identifier]_vars

\* u1 had its record before u2 got one, and a later set_preferred_run of u1
\* returned: it put its run into the first of the two records
C26_Witness ==
    /\ last.op = "set_preferred_run"
    /\ last.user = "u1"
    /\ last.ret = "True"
    /\ Len(pref_table) = 2
    /\ pref_table[1] = [user_identifier |-> "u1", preferred_run |-> last.run]
    /\ pref_table[2].user_identifier = "u2"

\* C27: when the computation inside get_calculation_data fails, on a miss or on
\* a forced refresh, the cache is left as it was: the error result is not
\* stored, and a value stored earlier under the key remains and is what the
\* next call without force_refresh returns.
C27_FailureLeavesCache ==
    [][/\ (last'.op = "get_calculation_data" /\ last'.ret = "error") => cache' = cache
       /\ (/\ last.op = "get_calculation_data"
           /\ last.ret = "error"
           /\ last.run # None
           /\ cache[<<last.user, last.run>>].expires > now
           /\ last'.op = "get_calculation_data"
           /\ ~last'.force
           /\ last'.user = last.user
           /\ last'.run = last.run)
              => (/\ last'.ret = "ok"
                  /\ last'.from_cache
                  /\ last'.data = cache[<<last.user, last.run>>].value
                  /\ last'.data # NoData)]_vars

\* a forced refresh failed on an unreadable file while the cache holds the dict
\* an earlier call stored for the run
C27_Witness ==
    /\ last.op = "get_calculation_data"
    /\ last.ret = "error"
    /\ last.force
    /\ last.run # None
    /\ cache[<<last.user, last.run>>].expires > now
    /\ cache[<<last.user, last.run>>].value.projects = 1

\* C28: whenever complete_calculation_run returns False the registry is as it
\* was before the call: no run's status was changed to completed, be it that
\* the run was not found or that an exception occurred after the status was
\* saved.
C28_FalseLeavesRegistry ==
    [][(last'.op = "complete_calculation_run" /\ last'.ret = "False") => runs' = runs]_vars

\* the same for the calls that find no run with the run_id
C28_NotFoundLeavesRegistry ==
    [][(last'.op = "complete_calculation_run" /\ last'.ret = "False" /\ ~runs[last'.run_id].exists)
           => runs' = runs]_vars

\* C29: a value stored for one (user_ip, user_identifier, run id) triple is only
\* returned to a call with the same triple, and two distinct triples never map
\* to the same cache key.
C29_CacheIsolation ==
    /\ (last.op = "cache_get" /\ last.ret # NoValue) => last.ret = last.triple
    /\ last.op \in {"cache_get", "cache_set"} =>
           \A t \in Triples : t # last.triple => cache_key_string(t) # last.key

\* the same for calls that pass no user_identifier, as every view does
C29_IsolationWithoutIdentifier ==
    (last.op = "cache_get" /\ last.triple[2] = "" /\ last.ret # NoValue /\ last.ret[2] = "")
        => last.ret = last.triple

\* the project labels of the rows of the result table
LabelsOfResult == {last.result_df[i].Libelle_projet : i \in 1..Len(last.result_df)}

\* table_projets holds one row per label of the result table, in ascending
\* order of the labels, and totalProjects is the number of these rows
OneRowPerLabelInOrder ==
    /\ {last.table_projets[i].Libelle_projet : i \in 1..Len(last.table_projets)} = LabelsOfResult
    /\ Len(last.table_projets) = Cardinality(LabelsOfResult)
    /\ \A i, j \in 1..Len(last.table_projets) :
           i < j => \E a, b \in 1..Len(Labels) :
                       /\ a < b
                       /\ Labels[a] = last.table_projets[i].Libelle_projet
                       /\ Labels[b] = last.table_projets[j].Libelle_projet
    /\ last.overall_kpis.totalProjects = Len(last.table_projets)

\* the estimated budgets of the rows of table_projets add up to totalBudgetEstime
RowBudgetsAddUp ==
    Sum([i \in 1..Len(last.table_projets) |-> last.table_projets[i].Estimees])
        = last.overall_kpis.totalBudgetEstime

\* C30: table_projets holds exactly one row per distinct project label in
\* ascending label order, totalProjects equals the number of those rows, and the
\* per-row estimated budgets add up to the overall totalBudgetEstime, for every
\* result table, one with a label in more than one row included.
C30_RowsMatchOverallKpis ==
    last.op = "load_dashboard_data" => (OneRowPerLabelInOrder /\ RowBudgetsAddUp)

\* the same with the budgets compared only for tables whose labels are distinct
C30_RowsMatchWhenLabelsDistinct ==
    last.op = "load_dashboard_data" =>
        /\ OneRowPerLabelInOrder
        /\ Cardinality(LabelsOfResult) = Len(last.result_df) => RowBudgetsAddUp

====
